---- MODULE Spec2Model ----
(***************************************************************************)
(* Model of the allocation engine of w6ara-fd-sim: scheduler.py            *)
(* (compute_sink_loads_by_hour, reset_source_schedules, generate_schedule) *)
(* over the data model of types.py (PowerSource, LoadComponent, PowerSink, *)
(* FieldDaySite).                                                          *)
(*                                                                         *)
(* Watts and watt-hours are natural numbers; float('inf') is the sentinel  *)
(* INF.  Hours are 0-based in the code and 1-based in the sequences here:  *)
(* the code's x[h] is x[h + 1].  A Python dict is a function whose DOMAIN  *)
(* is the key set; where the code iterates a dict, the insertion order is  *)
(* kept in a sequence of keys.  Source names are unique within a Site      *)
(* (the data model's rule); sink names may repeat, as FieldDaySite.add_sink*)
(* accepts any sink.                                                       *)
(***************************************************************************)
EXTENDS Integers, Sequences, FiniteSets, TLC

\* ---------------------------------------------------------------- bounds
Hours == 2
MaxPower == 2
MaxEnergy == 2
MaxCalls == 2

\* float('inf'), the default total_energy_wh of a PowerSource
INF == -1

\* length of the schedule a PowerSource is built with
DayHours == 24

\* ----------------------------------------------------------------- state
VARIABLES
  sources,              \* site.sources: records name, max_power_w, total_energy_wh
  sinks,                \* site.sinks: records name, components
  policy,               \* argument policy
  station_duty,         \* argument station_duty (no keys: None or {})
  assignments,          \* argument assignments (no keys: None or {})
  horizon,              \* argument hours
  schedule,             \* PowerSource.schedule of every source of site.sources
  pc,                   \* position of the running call
  error,                \* the exception that ended the call, "" if none
  per_sink_loads,
  sink_keys,            \* keys of sinks_by_name in iteration order
  default_ordered_sources,
  remaining_wh,
  source_power_w,
  source_energy_remaining_wh,
  unmet_load_w,
  h,
  unmet_this_hour,
  sinkpos,              \* position of the sink loop in sink_keys
  candidate_sources,
  candpos,              \* position of the candidate loop in candidate_sources
  remaining_demand,
  result,               \* the dict returned by the last completed call
  calls,                \* number of completed calls
  first_result,         \* the dict returned by the first completed call
  supplied_w,           \* history: watts committed per sink key, source name and hour
  head_available_w      \* history: available_w of a sink's first candidate when its walk began

inputs == <<sources, sinks, policy, station_duty, assignments, horizon>>
locals == <<per_sink_loads, sink_keys, default_ordered_sources, remaining_wh,
            source_power_w, source_energy_remaining_wh, unmet_load_w, h,
            unmet_this_hour, sinkpos, candidate_sources, candpos, remaining_demand>>
history == <<supplied_w, head_available_w>>
vars == <<inputs, schedule, pc, error, locals, result, calls, first_result, history>>

\* ------------------------------------------------------------- utilities
Min(a, b) == IF a <= b THEN a ELSE b
Max(a, b) == IF a >= b THEN a ELSE b
Zeros(n) == [i \in 1..n |-> 0]
Range(f) == {f[i] : i \in DOMAIN f}

RECURSIVE SumSeq(_)
SumSeq(s) == IF s = <<>> THEN 0 ELSE Head(s) + SumSeq(Tail(s))

RECURSIVE SumOver(_, _)
SumOver(f, S) ==
  IF S = {} THEN 0
  ELSE LET x == CHOOSE y \in S : TRUE IN f[x] + SumOver(f, S \ {x})

\* ------------------------------------------------------------- types.py
\* LoadComponent.power_at_hour
power_at_hour(comp, hour) == comp.power_w * comp.duty_cycle[hour + 1]

\* PowerSink.total_power_at_hour
total_power_at_hour(sink, hour) ==
  SumSeq([k \in 1..Len(sink.components) |-> power_at_hour(sink.components[k], hour)])

\* PowerSource.can_supply
can_supply(sched, max_power_w, hour, load_w) == sched[hour + 1] + load_w <= max_power_w

\* mutant: the load is booked on hour 0 whatever the hour
assign_load_hour_0(sched, hour, load_w) == [sched EXCEPT ![1] = @ + load_w]

\* PowerSource.assign_load once can_supply has passed: the new schedule
assign_load(sched, hour, load_w) == [sched EXCEPT ![hour + 1] = @ + load_w]

\* --------------------------------------------------------- scheduler.py
is_infinite(s) == s.total_energy_wh = INF

\* the list [sink.total_power_at_hour(h) for h in range(hours)]
base_of(sink, hours) == [k \in 1..hours |-> total_power_at_hour(sink, k - 1)]

\* the per-sink list `sched` of compute_sink_loads_by_hour
sched_of(sink, hours, duty) ==
  IF sink.name \in DOMAIN duty
  THEN [k \in 1..hours |-> base_of(sink, hours)[k] * duty[sink.name][k]]
  ELSE base_of(sink, hours)

\* index of the last sink of the list with the given name (a dict keeps the
\* last value stored under a key)
last_named(snks, n) ==
  CHOOSE i \in 1..Len(snks) :
    /\ snks[i].name = n
    /\ \A j \in (i + 1)..Len(snks) : snks[j].name # n

\* keys of a dict built by iterating the list, in insertion order
RECURSIVE key_order(_)
key_order(names) ==
  IF names = <<>> THEN <<>>
  ELSE LET front == key_order(SubSeq(names, 1, Len(names) - 1))
           last == names[Len(names)]
       IN IF last \in Range(front) THEN front ELSE Append(front, last)

\* compute_sink_loads_by_hour: raises when a sink's duty list has not
\* `hours` elements, otherwise returns (total, per_sink)
compute_sink_loads_by_hour(snks, hours, duty) ==
  LET bad == \E i \in 1..Len(snks) :
               /\ snks[i].name \in DOMAIN duty
               /\ Len(duty[snks[i].name]) # hours
      names == {snks[i].name : i \in 1..Len(snks)}
  IN IF bad
     THEN [raised |-> TRUE, total |-> <<>>, per_sink |-> <<>>]
     ELSE [raised |-> FALSE,
           total |-> [k \in 1..hours |->
                        SumSeq([i \in 1..Len(snks) |-> sched_of(snks[i], hours, duty)[k]])],
           per_sink |-> [n \in names |-> sched_of(snks[last_named(snks, n)], hours, duty)]]

\* mutant: the schedules of the previous solve are kept
reset_keeps_schedule(srcs, hours) == schedule

\* mutant: the schedules are reset to the length of a day
reset_day_length(srcs, hours) == [i \in 1..Len(srcs) |-> Zeros(DayHours)]

\* reset_source_schedules: the new schedule of every source
reset_source_schedules(srcs, hours) == [i \in 1..Len(srcs) |-> Zeros(hours)]

\* mutant: the two policies sort the wrong way round
default_order_swapped(srcs, pol) ==
  LET idx == [i \in 1..Len(srcs) |-> i]
      inf == SelectSeq(idx, LAMBDA i : is_infinite(srcs[i]))
      fin == SelectSeq(idx, LAMBDA i : ~is_infinite(srcs[i]))
  IN IF pol = "battery_last" THEN fin \o inf
     ELSE IF pol = "battery_first" THEN inf \o fin
     ELSE idx

\* sorted(sources, key=is_infinite[, reverse=True]) and the policy branch;
\* the result lists positions in site.sources
default_order(srcs, pol) ==
  LET idx == [i \in 1..Len(srcs) |-> i]
      inf == SelectSeq(idx, LAMBDA i : is_infinite(srcs[i]))
      fin == SelectSeq(idx, LAMBDA i : ~is_infinite(srcs[i]))
  IN IF pol = "battery_last" THEN inf \o fin
     ELSE IF pol = "battery_first" THEN fin \o inf
     ELSE idx

source_names(srcs) == {srcs[i].name : i \in 1..Len(srcs)}

\* sources_by_name
by_name(srcs, n) == CHOOSE i \in 1..Len(srcs) : srcs[i].name = n

\* does the assignment list of the sink name a source the Site has not
unknown_source(asg, sink_name, srcs) ==
  /\ sink_name \in DOMAIN asg
  /\ \E k \in 1..Len(asg[sink_name]) : asg[sink_name][k] \notin source_names(srcs)

\* mutant: the assignment list of the sink is ignored
candidates_ignore_assignment(asg, sink_name, srcs, dflt) == dflt

\* mutant: after the listed sources the sink falls back to every source
candidates_then_default(asg, sink_name, srcs, dflt) ==
  IF sink_name \in DOMAIN asg
  THEN [k \in 1..Len(asg[sink_name]) |-> by_name(srcs, asg[sink_name][k])] \o dflt
  ELSE dflt

\* mutant: the walk stops after the first candidate
candidates_first_only(asg, sink_name, srcs, dflt) ==
  IF sink_name \in DOMAIN asg
  THEN [k \in 1..Min(1, Len(asg[sink_name])) |-> by_name(srcs, asg[sink_name][k])]
  ELSE SubSeq(dflt, 1, Min(1, Len(dflt)))

\* candidate_sources of a sink: its assignment list resolved in listed
\* order, or the policy-derived default order
candidates(asg, sink_name, srcs, dflt) ==
  IF sink_name \in DOMAIN asg
  THEN [k \in 1..Len(asg[sink_name]) |-> by_name(srcs, asg[sink_name][k])]
  ELSE dflt

\* mutant: the energy left in the source does not limit the power
available_w_no_energy(max_power_w, sched_h, rem) == Max(0, max_power_w - sched_h)

\* mutant: the power already committed in the hour is not subtracted
available_w_no_headroom(max_power_w, sched_h, rem) ==
  IF rem = INF THEN max_power_w ELSE Min(max_power_w, rem)

\* hourly_headroom_w, energy_limit_w and available_w of one candidate
available_w(max_power_w, sched_h, rem) ==
  LET hourly_headroom_w == Max(0, max_power_w - sched_h)
  IN IF rem = INF THEN hourly_headroom_w ELSE Min(hourly_headroom_w, rem)

\* mutant: the sentinel is depleted like a finite budget
deplete_sentinel(rem, assign_w) == Max(0, rem - assign_w)

\* mutant: the committed watts are added to the remaining energy
deplete_sign_flipped(rem, assign_w) == IF rem = INF THEN INF ELSE Max(0, rem + assign_w)

\* the new remaining_wh[name] after assign_w has been committed
deplete(rem, assign_w) == IF rem = INF THEN INF ELSE Max(0, rem - assign_w)

\* mutant: the watts are booked on hour 0 whatever the hour
add_power_hour_0(power, hour, assign_w) == [power EXCEPT ![1] = @ + assign_w]

\* source_power_w[name][hour] += assign_w: the new list of the source
add_power(power, hour, assign_w) == [power EXCEPT ![hour + 1] = @ + assign_w]

\* seq[1 : hours + 1]
normalize(seq, hours) == SubSeq(seq, 2, Min(Len(seq), hours + 1))


NoResult == [source_power_w |-> <<>>, source_energy_remaining_wh |-> <<>>,
             unmet_load_w |-> <<>>]

\* --------------------------------------------------------- input domains
Ones == [k \in 1..DayHours |-> 1]

SourceNames == <<"A", "B">>
UnknownName == "U"
SinkNames == {"X", "Y"}
Policies == {"battery_last", "battery_first", "native"}

\* one always-on component (duty_cycle=None) of power p
Component(p) == [name |-> "c", power_w |-> p, duty_cycle |-> Ones]

\* up to two sources: the first with every cap, the second with the least
\* or the largest cap, each with the least, the largest or no energy budget
SourceLists ==
  LET energy == {1, MaxEnergy, INF}
      first == (1..MaxPower) \X energy
      second == {1, MaxPower} \X energy
  IN {<<>>} \cup {<<a>> : a \in first} \cup {<<a, b>> : a \in first, b \in second}

MakeSources(l) ==
  [i \in 1..Len(l) |-> [name |-> SourceNames[i], max_power_w |-> l[i][1],
                        total_energy_wh |-> l[i][2]]]

\* one or two sinks; the second one may carry the name of the first.  The
\* first sink draws up to MaxPower + 1 W, more than one source can give.
SinkLists ==
  LET first == {<<Component(p)>> : p \in 1..MaxPower} \cup {<<Component(1), Component(MaxPower)>>}
      second == {<<Component(p)>> : p \in {1, MaxPower}}
  IN {<<[name |-> "X", components |-> c]>> : c \in first}
     \cup {<<[name |-> "X", components |-> c], [name |-> n, components |-> d]>> :
             c \in first, d \in second, n \in SinkNames}

\* duty lists of the right length: off, off in hour 0 only, doubled in hour 0
GoodDuty ==
  {Zeros(Hours),
   [k \in 1..Hours |-> IF k = 1 THEN 0 ELSE 2],
   [k \in 1..Hours |-> IF k = 1 THEN 2 ELSE 1]}

\* duty lists of a wrong length
BadDuty == {Zeros(Hours - 1)}

DutyMaps == {<<>>} \cup {[n \in {"X"} |-> d] : d \in GoodDuty \cup BadDuty}

AssignmentLists ==
  {<<>>, <<"A">>, <<"A", "B">>, <<"B", "A">>, <<"A", UnknownName>>, <<"A", "A">>}

AssignmentMaps ==
  {<<>>}
  \cup {[n \in {"X"} |-> l] : l \in AssignmentLists}
  \cup {[n \in {"Y"} |-> l] : l \in {<<"A">>, <<UnknownName>>}}

\* the state after the Site and its sources and sinks have been constructed
InitCore(HourS, SrcS, SnkS, PolS, DutyS, AsgS) ==
  /\ horizon \in HourS
  /\ \E l \in SrcS : sources = MakeSources(l)
  /\ sinks \in SnkS
  /\ policy \in PolS
  /\ station_duty \in DutyS
  /\ assignments \in AsgS
  /\ schedule = [i \in 1..Len(sources) |-> Zeros(DayHours)]
  /\ pc = "idle"
  /\ error = ""
  /\ per_sink_loads = <<>>
  /\ sink_keys = <<>>
  /\ default_ordered_sources = <<>>
  /\ remaining_wh = <<>>
  /\ source_power_w = <<>>
  /\ source_energy_remaining_wh = <<>>
  /\ unmet_load_w = <<>>
  /\ h = 0
  /\ unmet_this_hour = 0
  /\ sinkpos = 1
  /\ candidate_sources = <<>>
  /\ candpos = 1
  /\ remaining_demand = 0
  /\ result = NoResult
  /\ calls = 0
  /\ first_result = NoResult
  /\ supplied_w = <<>>
  /\ head_available_w = <<>>

\* the same with the horizon Hours
InitFrom(SrcS, SnkS, PolS, DutyS, AsgS) == InitCore({Hours}, SrcS, SnkS, PolS, DutyS, AsgS)

Init == InitFrom(SourceLists, SinkLists, Policies, DutyMaps, AssignmentMaps)

\* --------------------------------------------------------------- actions
\* generate_schedule, lines 99-127: reset, demand aggregation, ordering,
\* name maps and the result arrays
Enter ==
  LET loads == compute_sink_loads_by_hour(sinks, horizon, station_duty)
      names == source_names(sources)
      rem == [n \in names |-> sources[by_name(sources, n)].total_energy_wh]
      keys == key_order([i \in 1..Len(sinks) |-> sinks[i].name])
  IN /\ schedule' = reset_source_schedules(sources, horizon)
     /\ IF loads.raised
        THEN /\ pc' = "error"
             /\ error' = "duty"
             /\ UNCHANGED <<locals, history>>
        ELSE /\ pc' = "sink"
             /\ error' = ""
             /\ per_sink_loads' = loads.per_sink
             /\ sink_keys' = keys
             /\ default_ordered_sources' = default_order(sources, policy)
             /\ remaining_wh' = rem
             /\ source_power_w' = [n \in names |-> Zeros(horizon)]
             /\ source_energy_remaining_wh' = [n \in names |-> <<rem[n]>>]
             /\ unmet_load_w' = Zeros(horizon)
             /\ h' = 0
             /\ unmet_this_hour' = 0
             /\ sinkpos' = 1
             /\ candidate_sources' = <<>>
             /\ candpos' = 1
             /\ remaining_demand' = 0
             /\ supplied_w' = [k \in Range(keys) |-> [n \in names |-> Zeros(horizon)]]
             /\ head_available_w' = [k \in Range(keys) |-> Zeros(horizon)]
     /\ UNCHANGED <<inputs, result, calls, first_result>>

\* the first call on a freshly built Site
Call == pc = "idle" /\ Enter

\* a further call on the same Site with the same arguments
CallAgain == pc = "done" /\ calls < MaxCalls /\ Enter

\* lines 133-149: next sink of the hour; skip it, raise on an unknown
\* assigned source, or set up its candidate walk
SinkStart ==
  /\ pc = "sink"
  /\ sinkpos <= Len(sink_keys)
  /\ LET sink_name == sink_keys[sinkpos]
         demand_w == per_sink_loads[sink_name][h + 1]
         unknown == unknown_source(assignments, sink_name, sources)
         cands == candidates(assignments, sink_name, sources, default_ordered_sources)
     IN IF demand_w <= 0
        THEN /\ sinkpos' = sinkpos + 1
             /\ UNCHANGED <<pc, error, candidate_sources, candpos, remaining_demand,
                            head_available_w>>
        ELSE IF unknown
        THEN /\ pc' = "error"
             /\ error' = "unknown_source"
             /\ UNCHANGED <<sinkpos, candidate_sources, candpos, remaining_demand,
                            head_available_w>>
        ELSE /\ pc' = "cand"
             /\ candidate_sources' = cands
             /\ candpos' = 1
             /\ remaining_demand' = demand_w
             /\ head_available_w' =
                  [head_available_w EXCEPT ![sink_name][h + 1] =
                     IF cands = <<>> THEN 0
                     ELSE available_w(sources[cands[1]].max_power_w,
                                      schedule[cands[1]][h + 1],
                                      remaining_wh[sources[cands[1]].name])]
             /\ UNCHANGED <<sinkpos, error>>
  /\ UNCHANGED <<inputs, schedule, per_sink_loads, sink_keys, default_ordered_sources,
                 remaining_wh, source_power_w, source_energy_remaining_wh, unmet_load_w,
                 h, unmet_this_hour, result, calls, first_result, supplied_w>>

\* lines 151-167: one candidate of the walk
Candidate ==
  /\ pc = "cand"
  /\ candpos <= Len(candidate_sources)
  /\ LET i == candidate_sources[candpos]
         s == sources[i]
         name == s.name
         avail == available_w(s.max_power_w, schedule[i][h + 1], remaining_wh[name])
         assign_w == Min(remaining_demand, avail)
     IN IF avail <= 0 \/ remaining_demand <= 0
        THEN /\ candpos' = candpos + 1
             /\ UNCHANGED <<pc, error, schedule, source_power_w, remaining_wh,
                            remaining_demand, supplied_w>>
        ELSE IF ~can_supply(schedule[i], s.max_power_w, h, assign_w)
        THEN \* PowerSource.assign_load raises
             /\ pc' = "error"
             /\ error' = "capacity"
             /\ UNCHANGED <<candpos, schedule, source_power_w, remaining_wh,
                            remaining_demand, supplied_w>>
        ELSE /\ schedule' = [schedule EXCEPT ![i] = assign_load(@, h, assign_w)]
             /\ source_power_w' = [source_power_w EXCEPT ![name] = add_power(@, h, assign_w)]
             /\ remaining_wh' = [remaining_wh EXCEPT ![name] = deplete(@, assign_w)]
             /\ remaining_demand' = remaining_demand - assign_w
             /\ supplied_w' = [supplied_w EXCEPT
                                 ![sink_keys[sinkpos]][name][h + 1] = @ + assign_w]
             /\ candpos' = candpos + 1
             /\ UNCHANGED <<pc, error>>
  /\ UNCHANGED <<inputs, per_sink_loads, sink_keys, default_ordered_sources,
                 source_energy_remaining_wh, unmet_load_w, h, unmet_this_hour, sinkpos,
                 candidate_sources, result, calls, first_result, head_available_w>>

\* lines 169-170: the walk is over, what is left of the demand is unmet
SinkEnd ==
  /\ pc = "cand"
  /\ candpos > Len(candidate_sources)
  /\ unmet_this_hour' = IF remaining_demand > 0 THEN unmet_this_hour + remaining_demand
                                                ELSE unmet_this_hour
  /\ sinkpos' = sinkpos + 1
  /\ pc' = "sink"
  /\ UNCHANGED <<inputs, schedule, error, per_sink_loads, sink_keys,
                 default_ordered_sources, remaining_wh, source_power_w,
                 source_energy_remaining_wh, unmet_load_w, h, candidate_sources, candpos,
                 remaining_demand, result, calls, first_result, history>>

\* lines 172-177 and the loop header of line 129: close hour h
HourEnd ==
  /\ pc = "sink"
  /\ sinkpos > Len(sink_keys)
  /\ unmet_load_w' = [unmet_load_w EXCEPT ![h + 1] = unmet_this_hour]
  /\ source_energy_remaining_wh' =
       [n \in DOMAIN source_energy_remaining_wh |->
          Append(source_energy_remaining_wh[n], remaining_wh[n])]
  /\ h' = h + 1
  /\ unmet_this_hour' = 0
  /\ sinkpos' = 1
  /\ pc' = IF h + 1 < horizon THEN "sink" ELSE "return"
  /\ UNCHANGED <<inputs, schedule, error, per_sink_loads, sink_keys,
                 default_ordered_sources, remaining_wh, source_power_w, candidate_sources,
                 candpos, remaining_demand, result, calls, first_result, history>>

\* lines 179-188: normalise the snapshots and return
Return ==
  /\ pc = "return"
  /\ source_energy_remaining_wh' =
       [n \in DOMAIN source_energy_remaining_wh |->
          normalize(source_energy_remaining_wh[n], horizon)]
  /\ result' = [source_power_w |-> source_power_w,
                source_energy_remaining_wh |-> source_energy_remaining_wh',
                unmet_load_w |-> unmet_load_w]
  /\ calls' = calls + 1
  /\ first_result' = IF calls = 0 THEN result' ELSE first_result
  /\ pc' = "done"
  /\ UNCHANGED <<inputs, schedule, error, per_sink_loads, sink_keys,
                 default_ordered_sources, remaining_wh, source_power_w, unmet_load_w, h,
                 unmet_this_hour, sinkpos, candidate_sources, candpos, remaining_demand,
                 history>>

\* one call of generate_schedule on a freshly built Site
Next == Call \/ SinkStart \/ Candidate \/ SinkEnd \/ HourEnd \/ Return

Spec == Init /\ [][Next]_vars

\* MaxCalls calls in a row on the same Site with the same arguments
TwiceSinks ==
  {l \in SinkLists : \A i \in 1..Len(l) : Len(l[i].components) = 1}

InitTwice ==
  InitFrom(SourceLists, TwiceSinks, Policies,
           {<<>>, [n \in {"X"} |-> [k \in 1..Hours |-> IF k = 1 THEN 2 ELSE 1]]},
           {<<>>, [n \in {"X"} |-> <<"B", "A">>]})

NextTwice == Next \/ CallAgain

SpecTwice == InitTwice /\ [][NextTwice]_vars

\* three sinks X, Y and a third one that is named Z or carries the name of
\* the first
OrderSinks ==
  {<<[name |-> "X", components |-> <<Component(a)>>],
     [name |-> "Y", components |-> <<Component(b)>>],
     [name |-> n, components |-> <<Component(c)>>]>> :
     a \in 1..MaxPower, b \in 1..MaxPower, c \in 1..MaxPower, n \in {"X", "Z"}}

\* three sinks competing for one source, without duty map and assignments
InitOrder ==
  InitFrom({l \in SourceLists : Len(l) = 1}, OrderSinks, Policies, {<<>>}, {<<>>})

SpecOrder == InitOrder /\ [][Next]_vars

\* the default horizon of generate_schedule
DefaultHours == 24

\* the example scenario: one source of 1000 W and 1000 Wh, one sink of
\* 500 W all day, under every policy, with and without an assignment
InitExample ==
  InitCore({DefaultHours}, {<<<<1000, 1000>>>>},
           {<<[name |-> "X", components |-> <<Component(500)>>]>>},
           Policies, {<<>>}, {<<>>, [n \in {"X"} |-> <<"A">>]})

SpecExample == InitExample /\ [][Next]_vars


\* ------------------------------------------------------------ properties
Returned == pc = "done"
HourSet == 1..horizon
SourceIdx == 1..Len(sources)
FiniteNames == {sources[i].name : i \in {j \in SourceIdx : ~is_infinite(sources[j])}}

\* total site demand per hour, the first value compute_sink_loads_by_hour returns
total_sink_demand == compute_sink_loads_by_hour(sinks, horizon, station_duty).total

\* watts all sources together supply in hour k according to a returned dict
supplied_in(res, k) ==
  SumOver([n \in DOMAIN res.source_power_w |-> res.source_power_w[n][k]],
          DOMAIN res.source_power_w)

\* C1: once generate_schedule has returned, in every hour the power of all
\* sources plus the unmet load equals the total site demand of that hour as
\* compute_sink_loads_by_hour totals it over all sinks of the Site.
C1_Conservation ==
  Returned =>
    \A k \in HourSet :
      supplied_in(result, k) + result.unmet_load_w[k] = total_sink_demand[k]

\* C2: at every point of a solve and in the returned dict, no source carries
\* more than its max_power_w in any hour, however many sinks draw from it.
C2_CapacityBound ==
  \A i \in SourceIdx :
    LET n == sources[i].name IN
    /\ n \in DOMAIN source_power_w =>
         \A k \in HourSet : source_power_w[n][k] <= sources[i].max_power_w
    /\ n \in DOMAIN result.source_power_w =>
         \A k \in HourSet : result.source_power_w[n][k] <= sources[i].max_power_w

\* C2 witness: two sinks have drawn from the same source in one hour, the
\* source stands at its cap and demand was left unmet.
C2_Witness ==
  /\ Returned
  /\ \E i \in SourceIdx, k \in HourSet :
       LET n == sources[i].name IN
       /\ {"X", "Y"} \subseteq DOMAIN supplied_w
       /\ supplied_w["X"][n][k] > 0
       /\ supplied_w["Y"][n][k] > 0
       /\ result.source_power_w[n][k] = sources[i].max_power_w
       /\ result.unmet_load_w[k] > 0

\* a series of watt-hours that never rises, stays within 0..cap
NonIncreasingWithin(seq, cap) ==
  /\ \A k \in 1..Len(seq) : seq[k] >= 0 /\ seq[k] <= cap
  /\ \A k \in 1..(Len(seq) - 1) : seq[k + 1] <= seq[k]

\* C3: the remaining-energy series of every finite source never rises from
\* hour to hour, never exceeds total_energy_wh and is never negative, while
\* it is being built and in the returned dict.
C3_EnergyMonotone ==
  \A i \in SourceIdx :
    LET n == sources[i].name IN
    ~is_infinite(sources[i]) =>
      /\ n \in DOMAIN source_energy_remaining_wh =>
           NonIncreasingWithin(source_energy_remaining_wh[n], sources[i].total_energy_wh)
      /\ n \in DOMAIN result.source_energy_remaining_wh =>
           /\ Len(result.source_energy_remaining_wh[n]) = horizon
           /\ NonIncreasingWithin(result.source_energy_remaining_wh[n],
                                  sources[i].total_energy_wh)

\* C3 witness: a finite source was drained over more than one hour, down to 0.
C3_Witness ==
  /\ Returned
  /\ \E i \in SourceIdx :
       LET n == sources[i].name
           ser == result.source_energy_remaining_wh[n]
       IN /\ ~is_infinite(sources[i])
          /\ ser[1] < sources[i].total_energy_wh
          /\ ser[horizon] < ser[1]
          /\ ser[horizon] = 0


\* C4: a further call on the same Site with the same arguments returns the
\* same three arrays as the first call did.
C4_RepeatedSolvesIdentical ==
  (Returned /\ calls >= 2) => result = first_result

\* C4 witness: the second call has returned, and the first one had left
\* committed power in a schedule and an emptied finite source behind.
C4_Witness ==
  /\ Returned
  /\ calls = 2
  /\ \E i \in SourceIdx :
       LET n == sources[i].name IN
       /\ ~is_infinite(sources[i])
       /\ first_result.source_power_w[n][1] > 0
       /\ first_result.source_energy_remaining_wh[n][horizon] = 0
       /\ first_result.unmet_load_w[horizon] > 0

\* the sink keys whose assignment list is [A, B] with two different sources of the Site
TwoListed ==
  {n \in DOMAIN assignments \cap DOMAIN supplied_w :
     /\ Len(assignments[n]) = 2
     /\ assignments[n][1] # assignments[n][2]
     /\ Range(assignments[n]) \subseteq source_names(sources)}

\* C5: for a sink assigned [A, B], in every hour in which A's available
\* power at the moment the sink is processed covers the sink's demand, B
\* supplies nothing to the sink (so B supplies nothing at all to it when A
\* covers it in every hour).
C5_AssignmentPrecedence ==
  \A n \in TwoListed : \A k \in HourSet :
    head_available_w[n][k] >= per_sink_loads[n][k] =>
      supplied_w[n][assignments[n][2]][k] = 0

\* C5 witness: a solve has returned in which A covered the positive demand
\* of such a sink in every hour while B had power to give.
C5_Witness ==
  /\ Returned
  /\ \E n \in TwoListed :
       LET a == assignments[n][1]
           b == assignments[n][2]
       IN /\ \A k \in HourSet :
               /\ per_sink_loads[n][k] > 0
               /\ head_available_w[n][k] >= per_sink_loads[n][k]
               /\ supplied_w[n][a][k] = per_sink_loads[n][k]
               /\ result.source_power_w[b][k] < sources[by_name(sources, b)].max_power_w
          /\ is_infinite(sources[by_name(sources, b)])

\* a Site with exactly one finite and one infinite source
MixedPair == Len(sources) = 2 /\ Cardinality(FiniteNames) = 1
FiniteIdx == CHOOSE i \in SourceIdx : ~is_infinite(sources[i])
InfiniteIdx == CHOOSE i \in SourceIdx : is_infinite(sources[i])
Unassigned == {n \in DOMAIN supplied_w : n \notin DOMAIN assignments}
AtCap(i, k) == schedule[i][k] = sources[i].max_power_w

\* C6: on a Site with one finite and one infinite source, a sink without an
\* assignment gets power from the finite source under battery_last only in
\* an hour in which the infinite source stands at its max_power_w, and from
\* the infinite source under battery_first only in an hour in which the
\* finite source stands at its max_power_w or has no energy left.
C6_PolicyOrdering ==
  MixedPair =>
    \A n \in Unassigned : \A k \in HourSet :
      /\ (policy = "battery_last" /\ supplied_w[n][sources[FiniteIdx].name][k] > 0)
           => AtCap(InfiniteIdx, k)
      /\ (policy = "battery_first" /\ supplied_w[n][sources[InfiniteIdx].name][k] > 0)
           => (AtCap(FiniteIdx, k) \/ remaining_wh[sources[FiniteIdx].name] = 0)

\* C6 witness: under battery_last a sink whose demand exceeds the cap of
\* either source has drawn from the finite source, which comes first in the
\* Site's own order.
C6_Witness ==
  /\ MixedPair
  /\ policy = "battery_last"
  /\ FiniteIdx = 1
  /\ \E n \in Unassigned : \E k \in HourSet :
       /\ per_sink_loads[n][k] > sources[1].max_power_w
       /\ per_sink_loads[n][k] > sources[2].max_power_w
       /\ supplied_w[n][sources[FiniteIdx].name][k] > 0
       /\ supplied_w[n][sources[InfiniteIdx].name][k] = sources[InfiniteIdx].max_power_w


SinkIdx == 1..Len(sinks)

\* some sink of the Site has an assignment list with a name that is no source
UnknownAssigned == \E i \in SinkIdx : unknown_source(assignments, sinks[i].name, sources)

\* some sink of the Site has a duty list that has not Hours elements
BadDutyLength ==
  \E i \in SinkIdx :
    /\ sinks[i].name \in DOMAIN station_duty
    /\ Len(station_duty[sinks[i].name]) # horizon

\* C7: a solve never returns normally when a sink of the Site has an
\* assignment list that names an unknown source, whatever the sink's demand
\* and wherever the name stands in the list.
C7_UnknownSourceFails == Returned => ~UnknownAssigned

NothingCommitted == \A i \in SourceIdx : \A k \in 1..Len(schedule[i]) : schedule[i][k] = 0

\* C8: when a solve fails on a duty list of wrong length or on an unknown
\* assigned source, no power has been committed to any schedule in that
\* solve and no result has been returned.
C8_FailsBeforeCommit ==
  (pc = "error" /\ error \in {"duty", "unknown_source"}) =>
    (NothingCommitted /\ result = NoResult)

\* the elementwise product of a sink's base demand and its multipliers, or
\* the base demand when the duty map has no entry for the sink
scaled_demand(sink) ==
  [k \in HourSet |->
     IF sink.name \in DOMAIN station_duty
     THEN total_power_at_hour(sink, k - 1) * station_duty[sink.name][k]
     ELSE total_power_at_hour(sink, k - 1)]

\* C9: the demand aggregation fails exactly when a sink of the Site has a
\* duty list that has not Hours elements; otherwise the per-sink mapping it
\* returns holds, for each sink, that sink's scaled demand.
C9_DemandAggregator ==
  pc # "idle" =>
    IF BadDutyLength
    THEN pc = "error" /\ error = "duty"
    ELSE /\ error # "duty"
         /\ \A i \in SinkIdx : per_sink_loads[sinks[i].name] = scaled_demand(sinks[i])

\* demand of all sinks of the Site in hour k that the sources did not supply
shortfall(res, k) ==
  SumSeq([i \in SinkIdx |-> scaled_demand(sinks[i])[k]]) - supplied_in(res, k)

ConfigOK == ~BadDutyLength /\ ~UnknownAssigned

\* C10: without a configuration error a solve never fails, and what it
\* returns records in unmet_load_w the demand of each hour that was not
\* supplied.
C10_UnservedIsRecorded ==
  ConfigOK =>
    /\ pc # "error"
    /\ Returned => \A k \in HourSet : result.unmet_load_w[k] = shortfall(result, k)

\* C10, the part the code keeps: without a configuration error a solve
\* never fails and never stops before it has returned.
C10_NeverAnError ==
  ConfigOK => (pc # "error" /\ (Returned \/ ENABLED Next))


\* C11: the remaining-energy series of every infinite source holds the
\* sentinel at every hour, while it is being built and in the returned
\* dict, whatever power the source supplies.
C11_InfiniteInvariance ==
  \A i \in SourceIdx :
    LET n == sources[i].name IN
    sources[i].total_energy_wh = INF =>
      /\ n \in DOMAIN remaining_wh => remaining_wh[n] = INF
      /\ n \in DOMAIN source_energy_remaining_wh =>
           \A k \in 1..Len(source_energy_remaining_wh[n]) :
             source_energy_remaining_wh[n][k] = INF
      /\ n \in DOMAIN result.source_energy_remaining_wh =>
           /\ Len(result.source_energy_remaining_wh[n]) = horizon
           /\ \A k \in HourSet : result.source_energy_remaining_wh[n][k] = INF

\* C11 witness: an infinite source has supplied power in every hour, up to
\* its cap in one of them.
C11_Witness ==
  /\ Returned
  /\ \E i \in SourceIdx :
       LET n == sources[i].name IN
       /\ sources[i].total_energy_wh = INF
       /\ \A k \in HourSet : result.source_power_w[n][k] > 0
       /\ \E k \in HourSet : result.source_power_w[n][k] = sources[i].max_power_w

\* C12: in the example scenario the source supplies 500 W in hours 0 and 1
\* and nothing afterwards, its snapshot is 500 Wh after hour 0 and 0 Wh from
\* hour 1 on, and the unmet load is 0 in hours 0 and 1 and 500 W in every
\* hour 2..23.
C12_ExampleScenario ==
  Returned =>
    /\ result.source_power_w["A"] = [k \in 1..DefaultHours |-> IF k <= 2 THEN 500 ELSE 0]
    /\ result.source_energy_remaining_wh["A"] =
         [k \in 1..DefaultHours |-> IF k = 1 THEN 500 ELSE 0]
    /\ result.unmet_load_w = [k \in 1..DefaultHours |-> IF k <= 2 THEN 0 ELSE 500]

\* C12 witness: the example has been solved over all 24 hours.
C12_Witness ==
  /\ Returned
  /\ horizon = DefaultHours
  /\ Len(result.unmet_load_w) = DefaultHours
  /\ result.source_power_w["A"][1] = 500
  /\ result.unmet_load_w[DefaultHours] = 500


\* C13: assign_load never raises: no state carries the capacity error, and
\* whenever the allocator is about to commit to a candidate, the watts
\* already booked on that source in the hour plus the watts assigned stay
\* within max_power_w.
C13_CapacityErrorUnreachable ==
  /\ error # "capacity"
  /\ (pc = "cand" /\ candpos <= Len(candidate_sources)) =>
       LET i == candidate_sources[candpos]
           rem == remaining_wh[sources[i].name]
           headroom == Max(0, sources[i].max_power_w - schedule[i][h + 1])
           avail == IF rem = INF THEN headroom ELSE Min(headroom, rem)
       IN (avail > 0 /\ remaining_demand > 0) =>
            schedule[i][h + 1] + Min(remaining_demand, avail) <= sources[i].max_power_w

\* C13 witness: a sink whose list names source A twice and a second sink
\* have both been served by A in one hour, which filled A to its cap.
C13_Witness ==
  /\ Returned
  /\ "X" \in DOMAIN assignments
  /\ assignments["X"] = <<"A", "A">>
  /\ \E i \in SourceIdx : \E k \in HourSet :
       /\ sources[i].name = "A"
       /\ AtCap(i, k)
       /\ {"X", "Y"} \subseteq DOMAIN supplied_w
       /\ supplied_w["X"]["A"][k] > 0
       /\ supplied_w["Y"]["A"][k] > 0


\* watts a power series holds in its first k hours
committed_through(power, k) == SumSeq(SubSeq(power, 1, k))

\* C14: for every finite source the snapshot of hour h is total_energy_wh
\* minus the power committed to the source in hours 0..h, while the series
\* is being built and in the returned dict; the power of hour h is at most
\* the energy left at the start of hour h, and the power over the whole
\* horizon is at most total_energy_wh.
C14_EnergyAccounting ==
  \A i \in SourceIdx :
    LET n == sources[i].name
        total == sources[i].total_energy_wh
    IN total # INF =>
         /\ pc \in {"sink", "cand", "return"} =>
              /\ \A j \in 1..Len(source_energy_remaining_wh[n]) :
                   source_energy_remaining_wh[n][j] =
                     total - committed_through(source_power_w[n], j - 1)
              /\ remaining_wh[n] = total - SumSeq(source_power_w[n])
         /\ Returned =>
              LET power == result.source_power_w[n]
                  left == result.source_energy_remaining_wh[n]
              IN /\ Len(left) = horizon
                 /\ \A k \in HourSet :
                      /\ left[k] = total - committed_through(power, k)
                      /\ power[k] <= total - committed_through(power, k - 1)
                 /\ SumSeq(power) <= total

\* C14 witness: a finite source has supplied power in two hours and ends
\* the horizon drained, having covered less than the demand of the last hour.
C14_Witness ==
  /\ Returned
  /\ horizon >= 2
  /\ \E i \in SourceIdx :
       LET n == sources[i].name IN
       /\ sources[i].total_energy_wh # INF
       /\ result.source_power_w[n][horizon - 1] > 0
       /\ result.source_power_w[n][horizon] > 0
       /\ result.source_energy_remaining_wh[n][horizon - 1] > 0
       /\ result.source_energy_remaining_wh[n][horizon] = 0
       /\ result.unmet_load_w[horizon] > 0


\* demand of the sink walked under key n that no source covered in hour k
walk_shortfall(n, k) ==
  per_sink_loads[n][k] -
    SumOver([m \in DOMAIN supplied_w[n] |-> supplied_w[n][m][k]], DOMAIN supplied_w[n])

\* C15: a sink whose name is a key of the assignment map is supplied by
\* listed sources only, in every hour, and what the listed sources leave
\* uncovered is recorded as unmet load; the candidates of a sink without an
\* entry are all sources of the Site in the default order.
C15_AllowedSuppliers ==
  /\ \A n \in DOMAIN supplied_w \cap DOMAIN assignments :
       \A m \in DOMAIN supplied_w[n] :
         m \notin Range(assignments[n]) =>
           \A k \in 1..Len(supplied_w[n][m]) : supplied_w[n][m][k] = 0
  /\ (pc = "cand" /\ sink_keys[sinkpos] \notin DOMAIN assignments) =>
       /\ candidate_sources = default_ordered_sources
       /\ Len(candidate_sources) = Len(sources)
       /\ Range(candidate_sources) = SourceIdx
  /\ Returned =>
       \A k \in HourSet :
         result.unmet_load_w[k] =
           SumOver([n \in DOMAIN supplied_w |-> walk_shortfall(n, k)], DOMAIN supplied_w)

\* C15 witness: sink X, limited to source A, is left short in an hour in
\* which the infinite source B keeps headroom and serves sink Y, which has
\* no entry.
C15_Witness ==
  /\ Returned
  /\ "X" \in DOMAIN assignments
  /\ assignments["X"] = <<"A">>
  /\ {"X", "Y"} \subseteq DOMAIN supplied_w
  /\ \E i \in SourceIdx : \E k \in HourSet :
       /\ sources[i].name = "B"
       /\ sources[i].total_energy_wh = INF
       /\ schedule[i][k] < sources[i].max_power_w
       /\ supplied_w["X"]["A"][k] > 0
       /\ walk_shortfall("X", k) > 0
       /\ supplied_w["Y"]["B"][k] > 0


\* names of the sources a sink of name n may draw from
candidate_names(n) ==
  IF n \in DOMAIN assignments THEN Range(assignments[n]) ELSE source_names(sources)

\* source m has nothing left to give in hour k: it is at its cap for the
\* hour or its energy is used up
Exhausted(m, k) ==
  \E i \in SourceIdx :
    /\ sources[i].name = m
    /\ (AtCap(i, k) \/ remaining_wh[m] = 0)

\* the walk of the sink at position p of the sink order is over for hour k
WalkOver(p, k) ==
  \/ k <= h
  \/ /\ k = h + 1
     /\ pc \in {"sink", "cand"}
     /\ \/ p < sinkpos
        \/ p = sinkpos /\ pc = "cand" /\ candpos > Len(candidate_sources)

\* the sink at position p ended its walk of hour k with demand uncovered
LeftShort(p, k) ==
  /\ WalkOver(p, k)
  /\ IF p = sinkpos /\ k = h + 1 /\ pc = "cand"
     THEN remaining_demand > 0
     ELSE walk_shortfall(sink_keys[p], k) > 0

\* C16: from the moment a sink is left with uncovered demand in hour h,
\* every source of its candidate list is at its max_power_w for hour h or
\* has no energy left; unmet load in an hour, pending or recorded, implies
\* such a sink exists.
C16_UnmetOnlyWhenExhausted ==
  pc \in {"sink", "cand", "return", "done"} =>
    /\ \A p \in 1..Len(sink_keys) : \A k \in 1..Min(h + 1, horizon) :
         LeftShort(p, k) =>
           \A m \in candidate_names(sink_keys[p]) : Exhausted(m, k)
    /\ (pc \in {"sink", "cand"} /\ unmet_this_hour > 0) =>
         \E p \in 1..Len(sink_keys) : p < sinkpos /\ LeftShort(p, h + 1)
    /\ \A k \in 1..h :
         unmet_load_w[k] > 0 => \E p \in 1..Len(sink_keys) : LeftShort(p, k)

\* C16 witness: a sink with two candidates was left short in the hour under
\* way: one candidate is at its cap, the other is below its cap with its
\* energy used up, and a later sink is being walked.
C16_Witness ==
  /\ pc = "cand"
  /\ sinkpos = 2
  /\ unmet_this_hour > 0
  /\ LeftShort(1, h + 1)
  /\ \E i, j \in SourceIdx :
       /\ i # j
       /\ {sources[i].name, sources[j].name} \subseteq candidate_names(sink_keys[1])
       /\ AtCap(i, h + 1)
       /\ ~AtCap(j, h + 1)
       /\ schedule[j][h + 1] > 0
       /\ remaining_wh[sources[j].name] = 0


\* the sink at position q of the Site is the one its name resolves to
Walked(q) == \A r \in SinkIdx : r > q => sinks[r].name # sinks[q].name

\* watts the sink at position q of the Site has received in hour k
received_by(q, k) ==
  IF Walked(q) /\ sinks[q].name \in DOMAIN supplied_w
  THEN SumOver([m \in DOMAIN supplied_w[sinks[q].name] |-> supplied_w[sinks[q].name][m][k]],
               DOMAIN supplied_w[sinks[q].name])
  ELSE 0

\* the sinks at positions p and q have the same candidate list
SameCandidates(p, q) ==
  LET np == sinks[p].name
      nq == sinks[q].name
  IN IF np \in DOMAIN assignments
     THEN nq \in DOMAIN assignments /\ assignments[np] = assignments[nq]
     ELSE nq \notin DOMAIN assignments

\* C17: for two sinks of the Site, p before q in the Site's sink order, with
\* the same candidate list: if p has been served in hour h and is left with
\* unmet demand, q has received no power in hour h.
C17_SinkOrderDecides ==
  Returned =>
    \A p, q \in SinkIdx : \A k \in HourSet :
      (p < q /\ Walked(p) /\ SameCandidates(p, q)
         /\ scaled_demand(sinks[p])[k] - received_by(p, k) > 0) =>
        received_by(q, k) = 0


\* no value of an hour other than hour k (0-based) differs between the two
\* states, and no schedule value falls
OnlyHourTouched(k) ==
  /\ \A i \in SourceIdx : \A j \in 1..Len(schedule[i]) :
       /\ schedule'[i][j] >= schedule[i][j]
       /\ j # k + 1 => schedule'[i][j] = schedule[i][j]
  /\ \A n \in DOMAIN source_power_w : \A j \in 1..Len(source_power_w[n]) :
       j # k + 1 => source_power_w'[n][j] = source_power_w[n][j]
  /\ \A j \in 1..Len(unmet_load_w) :
       j # k + 1 => unmet_load_w'[j] = unmet_load_w[j]

\* C18: while a solve runs, the hour counter stays or advances by one, no
\* schedule value ever falls, and a step of hour h changes source_power_w,
\* schedule and unmet_load_w at hour h only, so the values of processed
\* hours stay as they are, up to and including the returned dict.
C18_NoBackfill ==
  [][/\ pc \in {"sink", "cand"} =>
          /\ h' \in {h, h + 1}
          /\ h < horizon
          /\ OnlyHourTouched(h)
     /\ pc = "return" =>
          /\ h = horizon
          /\ schedule' = schedule
          /\ result'.source_power_w = source_power_w
          /\ result'.unmet_load_w = unmet_load_w]_vars

\* C18 witness: in a later hour power is being committed on a source that
\* also carries power of the hour before, in which load stayed unmet.
C18_Witness ==
  /\ pc \in {"sink", "cand"}
  /\ h >= 1
  /\ unmet_load_w[h] > 0
  /\ \E i \in SourceIdx : schedule[i][h] > 0 /\ schedule[i][h + 1] > 0

\* C19: from the start of the allocation to the return, each source's
\* schedule has one element per hour of the horizon and equals the power
\* series kept for the source's name; the returned series is the same.
C19_RecordMatchesResult ==
  /\ (pc \in {"sink", "cand", "return", "done"} \/ error = "unknown_source") =>
       \A i \in SourceIdx :
         /\ Len(schedule[i]) = horizon
         /\ Len(source_power_w[sources[i].name]) = horizon
         /\ \A k \in HourSet : schedule[i][k] = source_power_w[sources[i].name][k]
  /\ Returned =>
       \A i \in SourceIdx : schedule[i] = result.source_power_w[sources[i].name]

\* C19 witness: a solve over two sources has returned, both with power in
\* the last hour and different series.
C19_Witness ==
  /\ Returned
  /\ \E i, j \in SourceIdx :
       /\ schedule[i] # schedule[j]
       /\ schedule[i][horizon] > 0
       /\ schedule[j][horizon] > 0

\* C20: the allocator walks as many sinks as the Site has, and in every
\* hour the demands it walks add up to the total site demand that
\* compute_sink_loads_by_hour returns, also when sinks share a name.
C20_EverySinkProcessed ==
  pc \in {"sink", "cand", "return", "done"} =>
    /\ Len(sink_keys) = Len(sinks)
    /\ \A k \in HourSet :
         SumSeq([p \in 1..Len(sink_keys) |-> per_sink_loads[sink_keys[p]][k]])
           = total_sink_demand[k]

====
